---- MODULE Spec2Model ----
(***************************************************************************)
(* liberyacs.config.CfgNode: load(), _convert_to_cfg_node(), the           *)
(* constructor's _create_config_tree_from_dict(), eval() and _eval().      *)
(*                                                                         *)
(* Python objects live in a heap: every dict / CfgNode is a heap node with *)
(* an identity, an ordered list of items and a flag telling whether it is  *)
(* a CfgNode.  Lists and tuples are never mutated in place by the code, so *)
(* they are values.  An operation threads a run record `st` (heap, call    *)
(* log, lookup log, counters, raised error) through its steps; once        *)
(* st.err is set every later step is skipped, as after a Python raise.     *)
(***************************************************************************)
EXTENDS Integers, Sequences, FiniteSets, TLC

\* ---------------------------------------------------------------- keys
EXTRALIBS == "extralibs"
ModuleKey == "module"
NAME == "name"
KWARGS == "kwargs"

\* ---------------------------------------------------------------- bounds
\* Largest integer scalar of the input trees.
MaxInt == 1
\* Largest number of aliases under `extralibs`.
MaxLibs == 2
\* The host's call-stack limit, counted in _eval frames.
RecursionLimit == 12

\* ---------------------------------------------------------------- values
IntV(i) == [t |-> "int", i |-> i]
NoneV == [t |-> "none"]
BoolV(b) == [t |-> "bool", b |-> b]
DateV == [t |-> "date"]
FloatV(f) == [t |-> "float", f |-> f]
StrV(s) == [t |-> "str", s |-> s]
SeqV(kind, items) == [t |-> "seq", kind |-> kind, items |-> items]
RefV(id) == [t |-> "ref", id |-> id]
\* a mapping as content: of the input, or of a heap node read back
MapV(cfg, items) == [t |-> "map", cfg |-> cfg, items |-> items]
\* an imported module, a callable of a module, an object a callable returned
ModV(m) == [t |-> "mod", m |-> m]
FnV(m, n) == [t |-> "fn", m |-> m, n |-> n]
ObjV(m, n, kw) == [t |-> "obj", m |-> m, n |-> n, kw |-> kw]

Item(k, v) == [k |-> k, v |-> v]
Keys(items) == {items[i].k : i \in 1..Len(items)}
Vals(items) == [i \in 1..Len(items) |-> items[i].v]
WithVals(items, vals) == [i \in 1..Len(items) |-> Item(items[i].k, vals[i])]
HasKey(items, k) == k \in Keys(items)
Get(items, k) == items[CHOOSE i \in 1..Len(items) : items[i].k = k].v
\* dict.pop(k, default): the value, and the items without k
PopVal(items, k, default) == IF HasKey(items, k) THEN Get(items, k) ELSE default
PopRest(items, k) == SelectSeq(items, LAMBDA e : e.k # k)

\* ---------------------------------------------------------------- run record
St0 ==
    [heap |-> <<>>, calls |-> <<>>, lookups |-> <<>>, nstr |-> 0, maxd |-> 0,
     err |-> ""]
R(st, val) == [st |-> st, val |-> val]
Raise(st, e) == IF st.err = "" THEN [st EXCEPT !.err = e] ELSE st
Failed(st) == st.err # ""
Alloc(st, cfg, items) ==
    R([st EXCEPT !.heap = Append(@, [cfg |-> cfg, items |-> items])],
      RefV(Len(st.heap) + 1))
SetItems(st, id, items) == [st EXCEPT !.heap[id].items = items]

RECURSIVE MapSt(_, _, _)
\* apply F to each value in order, threading the run record
MapSt(F(_, _), vals, st) ==
    IF vals = <<>> \/ Failed(st) THEN R(st, vals)
    ELSE LET h == F(Head(vals), st)
             rest == MapSt(F, Tail(vals), h.st)
         IN  R(rest.st, <<h.val>> \o rest.val)

RECURSIVE Materialize(_, _)
\* the plain dict / list structure the deserializer hands to the loader
Materialize(data, st) ==
    IF data.t = "map" THEN
        LET r == MapSt(Materialize, Vals(data.items), st)
        IN  Alloc(r.st, FALSE, WithVals(data.items, r.val))
    ELSE IF data.t = "seq" THEN
        LET r == MapSt(Materialize, data.items, st)
        IN  R(r.st, SeqV(data.kind, r.val))
    ELSE R(st, data)

RECURSIVE Deref(_, _)
\* the content reachable from a value: heap nodes read back as mappings
Deref(heap, v) ==
    IF v.t = "ref" THEN
        LET node == heap[v.id]
        IN  MapV(node.cfg,
                 [i \in 1..Len(node.items) |->
                    Item(node.items[i].k, Deref(heap, node.items[i].v))])
    ELSE IF v.t = "seq" THEN
        SeqV(v.kind, [i \in 1..Len(v.items) |-> Deref(heap, v.items[i])])
    ELSE IF v.t = "obj" THEN
        ObjV(v.m, v.n,
             [i \in 1..Len(v.kw) |-> Item(v.kw[i].k, Deref(heap, v.kw[i].v))])
    ELSE v

RECURSIVE Content(_)
\* content with the dict / CfgNode distinction dropped
Content(v) ==
    IF v.t = "map" THEN
        MapV(TRUE, [i \in 1..Len(v.items) |-> Item(v.items[i].k, Content(v.items[i].v))])
    ELSE IF v.t = "seq" THEN
        SeqV(v.kind, [i \in 1..Len(v.items) |-> Content(v.items[i])])
    ELSE IF v.t = "obj" THEN
        ObjV(v.m, v.n, [i \in 1..Len(v.kw) |-> Item(v.kw[i].k, Content(v.kw[i].v))])
    ELSE v

\* ---------------------------------------------------------------- loader
RECURSIVE CfgNodeNew(_, _)
\* _create_config_tree_from_dict, on a value of the dict: a dict becomes a
\* CfgNode, every element of a list or tuple is handed to the constructor
TreeValue(v, st) ==
    IF v.t = "ref" THEN CfgNodeNew(v, st)
    ELSE IF v.t = "seq" THEN
        LET r == MapSt(CfgNodeNew, v.items, st)
        IN  R(r.st, SeqV(v.kind, r.val))
    ELSE R(st, v)

\* _create_config_tree_from_dict: dic.items() needs a dict
CreateConfigTreeFromDict(dic, st) ==
    IF dic.t # "ref" THEN R(Raise(st, "AttributeError"), <<>>)
    ELSE LET items == st.heap[dic.id].items
             r == MapSt(TreeValue, Vals(items), st)
         IN  R(r.st, WithVals(items, r.val))

\* the constructor cls(init_dict): None stands for the empty dict
CfgNodeNew(init, st) ==
    IF Failed(st) THEN R(st, init)
    ELSE IF init.t = "none" THEN Alloc(st, TRUE, <<>>)
    ELSE LET r == CreateConfigTreeFromDict(init, st)
         IN  IF Failed(r.st) THEN R(r.st, init) ELSE Alloc(r.st, TRUE, r.val)

RECURSIVE ConvertToCfgNode(_, _)
\* _convert_to_cfg_node
ConvertToCfgNode(data, st) ==
    IF Failed(st) THEN R(st, data)
    ELSE IF data.t = "ref" THEN
        LET items == st.heap[data.id].items
            r == MapSt(ConvertToCfgNode, Vals(items), st)
        IN  Alloc(r.st, TRUE, WithVals(items, r.val))
    ELSE IF data.t = "seq" /\ data.kind = "list" THEN
        LET r == MapSt(ConvertToCfgNode, data.items, st)
        IN  R(r.st, SeqV("list", r.val))
    ELSE R(st, data)

RECURSIVE DeepCopy(_, _)
\* copy.deepcopy
DeepCopy(v, st) ==
    IF v.t = "ref" THEN
        LET node == st.heap[v.id]
            r == MapSt(DeepCopy, Vals(node.items), st)
        IN  Alloc(r.st, node.cfg, WithVals(node.items, r.val))
    ELSE IF v.t = "seq" THEN
        LET r == MapSt(DeepCopy, v.items, st)
        IN  R(r.st, SeqV(v.kind, r.val))
    ELSE R(st, v)

\* a clone that shares the tree instead of copying it
CloneShared(self, st) == R(st, self)

\* self.clone()
Clone(self, st) == DeepCopy(self, st)

\* ---------------------------------------------------------------- imports
Modules == {"math", "builtins"}
HasAttr(m, n) == <<m, n>> \in {<<"math", "sqrt">>, <<"math", "pi">>, <<"builtins", "dict">>}
ModuleAttr(m, n) == IF <<m, n>> = <<"math", "pi">> THEN FloatV("pi") ELSE FnV(m, n)

\* import_module(name)
ImportModule(v, st) ==
    IF Failed(st) THEN R(st, v)
    ELSE IF v.t # "str" THEN R(Raise(st, "AttributeError"), v)
    ELSE IF v.s \notin Modules THEN R(Raise(st, "ModuleNotFoundError"), v)
    ELSE R(st, ModV(v.s))

\* getattr(module, name)
GetAttr(mod, name, st) ==
    IF Failed(st) THEN R(st, mod)
    ELSE IF name.t # "str" THEN R(Raise(st, "TypeError"), mod)
    ELSE IF ~HasAttr(mod.m, name.s) THEN R(Raise(st, "AttributeError"), mod)
    ELSE R(st, ModuleAttr(mod.m, name.s))

\* ---------------------------------------------------------------- expressions
\* the source text of the expressions the input trees use
IntLiterals == {"1"}
StrLiterals == {"'a'"}
AttrExprs == {"np.pi"}
IntOf(s) == 1
StrOf(s) == "a"
AttrBase(s) == "np"
AttrName(s) == "pi"

\* a name: the locals (a mapping) first, then the globals
LookupName(n, G, L, st) ==
    LET locals == st.heap[L.id].items
    IN  IF HasKey(locals, n) THEN
            R([st EXCEPT !.lookups =
                 Append(@, [name |-> n, val |-> Content(Deref(st.heap, Get(locals, n)))])],
              Get(locals, n))
        ELSE IF n \in DOMAIN G THEN R(st, G[n])
        ELSE R(Raise(st, "NameError"), NoneV)

\* base.attr
LookupAttr(base, attr, st) ==
    IF Failed(st) THEN R(st, base)
    ELSE IF base.t = "mod" /\ HasAttr(base.m, attr) THEN R(st, ModuleAttr(base.m, attr))
    ELSE IF base.t = "ref" /\ st.heap[base.id].cfg /\ HasKey(st.heap[base.id].items, attr)
        THEN R(st, Get(st.heap[base.id].items, attr))
    ELSE R(Raise(st, "AttributeError"), base)

\* eval(source, global_context, local_context)
EvalExpr(s, G, L, st) ==
    LET st1 == [st EXCEPT !.nstr = @ + 1]
    IN  IF s \in IntLiterals THEN R(st1, IntV(IntOf(s)))
        ELSE IF s \in StrLiterals THEN R(st1, StrV(StrOf(s)))
        ELSE IF s \in AttrExprs THEN
            LET b == LookupName(AttrBase(s), G, L, st1)
            IN  LookupAttr(b.val, AttrName(s), b.st)
        ELSE LookupName(s, G, L, st1)

\* ---------------------------------------------------------------- _eval
\* a shape test that also wants module and name non-null
InitializedNonNull(items) ==
    /\ HasKey(items, ModuleKey) /\ HasKey(items, NAME)
    /\ Len(items) = 2 \/ (Len(items) = 3 /\ HasKey(items, KWARGS))
    /\ Get(items, ModuleKey) # NoneV /\ Get(items, NAME) # NoneV

\* the object-descriptor shape test
Initialized(items) ==
    \/ Len(items) = 2 /\ HasKey(items, ModuleKey) /\ HasKey(items, NAME)
    \/ Len(items) = 3 /\ HasKey(items, ModuleKey) /\ HasKey(items, NAME)
         /\ HasKey(items, KWARGS)

\* a call that drops the keyword arguments
CallNoArgs(fn, kwargs, node, st) ==
    IF Failed(st) THEN R(st, fn)
    ELSE IF fn.t # "fn" \/ kwargs.t # "ref" THEN R(Raise(st, "TypeError"), fn)
    ELSE IF fn = FnV("builtins", "dict")
        THEN Alloc([st EXCEPT !.calls =
                      Append(@, [node |-> node, m |-> fn.m, n |-> fn.n, kw |-> <<>>])],
                   FALSE, <<>>)
    ELSE R([st EXCEPT !.calls =
              Append(@, [node |-> node, m |-> fn.m, n |-> fn.n, kw |-> <<>>])],
           ObjV(fn.m, fn.n, <<>>))

\* callable(**kwargs): builtins.dict builds a dict, any other callable an object
Call(fn, kwargs, node, st) ==
    IF Failed(st) THEN R(st, fn)
    ELSE IF fn.t # "fn" \/ kwargs.t # "ref" THEN R(Raise(st, "TypeError"), fn)
    ELSE LET kw == st.heap[kwargs.id].items
             st1 == [st EXCEPT !.calls =
                        Append(@, [node |-> node, m |-> fn.m, n |-> fn.n, kw |-> kw])]
         IN  IF fn = FnV("builtins", "dict") THEN Alloc(st1, FALSE, kw)
             ELSE R(st1, ObjV(fn.m, fn.n, kw))

\* eval(name, {}, vars(module))
ResolveName(mod, name, st) ==
    IF Failed(st) THEN R(st, mod)
    ELSE IF name.t # "str" THEN R(Raise(st, "TypeError"), mod)
    ELSE IF ~HasAttr(mod.m, name.s) THEN R(Raise(st, "NameError"), mod)
    ELSE R(st, ModuleAttr(mod.m, name.s))

\* config.pop(KWARGS, {}): the value popped, in the heap without the key
PopKwargs(id, st) ==
    IF HasKey(st.heap[id].items, KWARGS)
    THEN R(SetItems(st, id, PopRest(st.heap[id].items, KWARGS)),
           Get(st.heap[id].items, KWARGS))
    ELSE Alloc(st, FALSE, <<>>)

CallResolved(fn, kwargs, id) == Call(fn.val, kwargs, id, fn.st)
ResolveIn(mod, name) == ResolveName(mod.val, name, mod.st)

\* eval(name, {}, vars(import_module(module)))(**kwargs)
ConstructWith(id, module, name, kw) ==
    CallResolved(ResolveIn(ImportModule(module, kw.st), name), kw.val, id)

\* kwargs = config.pop(KWARGS, {}), then the call
Construct(id, module, name, st) == ConstructWith(id, module, name, PopKwargs(id, st))

\* a sequence rebuilt as a list whatever its type
SeqTypeList(config) == "list"

\* type(config)(...)
SeqType(config) == config.kind

RECURSIVE EvalNode(_, _, _, _, _)
RECURSIVE EvalItems(_, _, _, _, _, _)
\* for key, value in config.items(): config[key] = _eval(value, ...)
EvalItems(id, i, G, L, st, d) ==
    IF Failed(st) \/ i > Len(st.heap[id].items) THEN st
    ELSE LET r == EvalNode(st.heap[id].items[i].v, G, L, st, d + 1)
         IN  IF Failed(r.st) THEN r.st
             ELSE EvalItems(id, i + 1, G, L,
                            [r.st EXCEPT !.heap[id].items[i].v = r.val], d)

\* module = config.pop(MODULE, None); name = config.pop(NAME, None)
PopDescriptor(id, st) ==
    SetItems(st, id, PopRest(PopRest(st.heap[id].items, ModuleKey), NAME))

\* after the loop over the items: construct, wrap, or keep
EvalDictEnd(config, initialized, module, name, st) ==
    IF Failed(st) THEN R(st, config)
    ELSE IF initialized THEN Construct(config.id, module, name, st)
    ELSE IF ~st.heap[config.id].cfg THEN CfgNodeNew(config, st)
    ELSE R(st, config)

\* the dict branch of _eval, once the shape of config is known
EvalDictAs(config, initialized, items, G, L, st, d) ==
    EvalDictEnd(config, initialized,
                PopVal(items, ModuleKey, NoneV), PopVal(items, NAME, NoneV),
                EvalItems(config.id, 1, G, L,
                          IF initialized THEN PopDescriptor(config.id, st) ELSE st, d))

\* the dict branch of _eval
EvalDict(config, G, L, st, d) ==
    EvalDictAs(config, Initialized(st.heap[config.id].items),
               st.heap[config.id].items, G, L, st, d)

\* a string node whose value is evaluated further even when it is a str
EvalFurtherAlways(r, G, L, d) ==
    IF Failed(r.st) THEN r ELSE EvalNode(r.val, G, L, r.st, d + 1)

\* the value of a string node: a str is kept, anything else evaluated further
EvalFurther(r, G, L, d) ==
    IF Failed(r.st) \/ r.val.t = "str" THEN r
    ELSE EvalNode(r.val, G, L, r.st, d + 1)

\* the str branch of _eval
EvalStr(config, G, L, st, d) == EvalFurther(EvalExpr(config.s, G, L, st), G, L, d)

\* _eval(config, global_context, local_context), d counting the _eval frames
EvalNode(config, G, L, st, d) ==
    IF Failed(st) THEN R(st, config)
    ELSE IF d > RecursionLimit THEN R(Raise(st, "RecursionError"), config)
    ELSE LET st1 == [st EXCEPT !.maxd = IF d > @ THEN d ELSE @]
         IN  IF config.t = "ref" THEN EvalDict(config, G, L, st1, d)
             ELSE IF config.t = "seq" THEN
                 LET r == MapSt(LAMBDA e, s : EvalNode(e, G, L, s, d + 1),
                                config.items, st1)
                 IN  R(r.st, SeqV(SeqType(config), r.val))
             ELSE IF config.t = "str" THEN EvalStr(config, G, L, st1, d)
             ELSE R(st1, config)

\* ---------------------------------------------------------------- eval
\* a check of the required fields only
MalformedMissingOnly(module, name, rest) == module = NoneV \/ name = NoneV

\* an extralibs mapping entry is rejected
Malformed(module, name, rest) == module = NoneV \/ name = NoneV \/ rest # <<>>

GetAttrOf(mod, name) == GetAttr(mod.val, name, mod.st)

\* a mapping entry: module and name popped, the rest checked, the attribute imported
ResolveLibInfo(lib_info, module, name, st) ==
    IF Malformed(module, name, st.heap[lib_info.id].items)
    THEN R(Raise(st, "ValueError"), lib_info)
    ELSE GetAttrOf(ImportModule(module, st), name)

\* one (alias, lib_info) pair of the extralibs loop
ResolveLib(lib_info, st) ==
    IF lib_info.t = "ref" THEN
        ResolveLibInfo(lib_info,
                       PopVal(st.heap[lib_info.id].items, ModuleKey, NoneV),
                       PopVal(st.heap[lib_info.id].items, NAME, NoneV),
                       PopDescriptor(lib_info.id, st))
    ELSE ImportModule(lib_info, st)

\* extralibs[alias] = lib
Bind(G, alias, lib) ==
    [a \in DOMAIN G \cup {alias} |-> IF a = alias THEN lib ELSE G[a]]

RECURSIVE ResolveLibs(_, _, _, _)
ResolveNext(entries, i, G, lib) ==
    IF Failed(lib.st) THEN R(lib.st, G)
    ELSE ResolveLibs(entries, i + 1, Bind(G, entries[i].k, lib.val), lib.st)

\* the extralibs loop: the global context, alias by alias
ResolveLibs(entries, i, G, st) ==
    IF Failed(st) \/ i > Len(entries) THEN R(st, G)
    ELSE ResolveNext(entries, i, G, ResolveLib(entries[i].v, st))

\* config = org_config = self.clone(): the local context of the descent
OrgConfig(config, self) == config

\* config.pop(EXTRALIBS, {}).items(): the entries, and the run record after the pop
LibEntries(items, st) ==
    IF HasKey(items, EXTRALIBS) /\ Get(items, EXTRALIBS).t = "ref"
    THEN st.heap[Get(items, EXTRALIBS).id].items
    ELSE <<>>
PopExtralibs(config, items, st) ==
    IF HasKey(items, EXTRALIBS) /\ Get(items, EXTRALIBS).t # "ref"
    THEN Raise(st, "AttributeError")
    ELSE SetItems(st, config.id, PopRest(items, EXTRALIBS))

\* config = CfgNode._eval(config, extralibs, org_config)
EvalWith(config, org_config, libs) ==
    IF Failed(libs.st) THEN R(libs.st, NoneV)
    ELSE EvalNode(config, libs.val, org_config, libs.st, 1)

\* eval, after the clone
EvalClone(c, self) ==
    EvalWith(c.val, OrgConfig(c.val, self),
             ResolveLibs(LibEntries(c.st.heap[c.val.id].items, c.st), 1, <<>>,
                         PopExtralibs(c.val, c.st.heap[c.val.id].items, c.st)))

\* CfgNode.eval
Eval(self, st) == EvalClone(Clone(self, st), self)

\* isinstance(config, CfgNode)
IsCfgNode(v, st) == v.t = "ref" /\ st.heap[v.id].cfg

\* assert isinstance(config, CfgNode); return config
AssertCfgNode(r) ==
    IF Failed(r.st) \/ IsCfgNode(r.val, r.st) THEN r
    ELSE R(Raise(r.st, "AssertionError"), r.val)

\* if evaluate: config = config.eval()
EvalIf(evaluate, r) ==
    IF evaluate /\ ~Failed(r.st) THEN Eval(r.val, r.st) ELSE r

\* config = cls._convert_to_cfg_node(config)
ConvertLoaded(r) == ConvertToCfgNode(r.val, r.st)

\* CfgNode.load_cfg(f): the constructor on the deserialized content
LoadCfg(file) == CfgNodeNew(file.val, file.st)

\* CfgNode.load, from the deserialized content of the file
Load(data, evaluate, st) ==
    AssertCfgNode(EvalIf(evaluate, ConvertLoaded(LoadCfg(Materialize(data, st)))))

\* ---------------------------------------------------------------- input trees
M(items) == MapV(FALSE, items)
Desc(m, n) == <<Item(ModuleKey, m), Item(NAME, n)>>
Math == StrV("math")
Sqrt == StrV("sqrt")

Scalars == {IntV(i) : i \in 1..MaxInt} \cup {NoneV, BoolV(TRUE), DateV}
Strings == {StrV(s) : s \in {"1", "'a'", "a", "b", "zz", "np", "np.pi"}}
Descriptors ==
    { M(Desc(Math, Sqrt)),
      M(<<Item(NAME, Sqrt),
          Item(KWARGS, M(<<Item("x", StrV("1")), Item("y", IntV(1))>>)),
          Item(ModuleKey, Math)>>),
      M(Desc(Math, Sqrt) \o <<Item(KWARGS, M(Desc(StrV("builtins"), StrV("dict"))))>>),
      M(Desc(Math, Sqrt) \o <<Item(KWARGS, M(Desc(Math, Sqrt)))>>),
      M(Desc(StrV("builtins"), StrV("dict")) \o <<Item(KWARGS, M(<<Item("x", StrV("a"))>>))>>),
      M(Desc(Math, Sqrt) \o <<Item(KWARGS, IntV(1))>>),
      M(Desc(NoneV, Sqrt)),
      M(Desc(Math, NoneV)),
      M(Desc(NoneV, NoneV)),
      M(Desc(StrV("nomod"), Sqrt)),
      M(Desc(Math, StrV("pi"))) }
Partials ==
    { M(<<Item(ModuleKey, IntV(1))>>),
      M(<<Item(ModuleKey, Math), Item(KWARGS, M(<<>>))>>),
      M(<<Item(NAME, StrV("1")), Item("x", NoneV)>>) }
Maps ==
    { M(<<Item("x", IntV(1)), Item("y", M(<<Item("z", DateV)>>))>>),
      M(<<Item("x", StrV("a"))>>),
      M(<<Item("x", StrV("b")), Item("y", StrV("'a'"))>>),
      M(<<Item("x", M(Desc(Math, Sqrt)))>>) }
Seqs ==
    { SeqV("list", <<IntV(1), NoneV>>),
      SeqV("tuple", <<IntV(1), DateV>>),
      SeqV("list", <<NoneV, M(<<Item("x", IntV(1))>>)>>),
      SeqV("list", <<StrV("a"), M(<<Item("x", StrV("b"))>>)>>),
      SeqV("list", <<M(Desc(Math, Sqrt))>>) }
Values == Scalars \cup Strings \cup Descriptors \cup Partials \cup Maps \cup Seqs

\* the items of a root: one or two keys, in either order
Bodies ==
    {<<Item(k, v)>> : k \in {"a", "b"}, v \in Values}
    \cup {<<Item("a", v), Item("b", w)>> : v \in Values, w \in Values}
    \cup {<<Item("b", v), Item("a", w)>> : v \in Values, w \in Values}
    \cup {d.items : d \in Descriptors}

\* entries of `extralibs`
LibInfos ==
    { Math, StrV("nomod"),
      M(Desc(Math, StrV("pi"))),
      M(<<Item(ModuleKey, Math)>>),
      M(Desc(Math, StrV("pi")) \o <<Item("extra", IntV(1))>>),
      M(Desc(NoneV, StrV("pi"))) }
Aliases == <<"np", "fr", "ex", "al">>
LibSeqs ==
    UNION {[1..n -> LibInfos] : n \in 1..MaxLibs}
LibItems(f) == [i \in 1..Len(f) |-> Item(Aliases[i], f[i])]
LibBodies ==
    { <<Item("a", StrV("1"))>>, <<Item("a", M(Desc(Math, Sqrt)))>>,
      <<Item("a", StrV("np")), Item("b", IntV(1))>> }

Inputs ==
    {M(b) : b \in Bodies}
    \cup {M(<<Item(EXTRALIBS, M(<<Item("np", Math)>>))>> \o b) : b \in Bodies}
    \cup {M(<<Item(EXTRALIBS, M(LibItems(f)))>> \o b) : f \in LibSeqs, b \in LibBodies}

RECURSIVE NoTuple(_)
\* what the deserializer can produce: lists, never tuples
NoTuple(v) ==
    IF v.t = "map" THEN \A i \in 1..Len(v.items) : NoTuple(v.items[i].v)
    ELSE IF v.t = "seq" THEN v.kind = "list" /\ \A i \in 1..Len(v.items) : NoTuple(v.items[i])
    ELSE TRUE

\* ---------------------------------------------------------------- state machine
VARIABLES
    input,   \* the content handed to the program
    pc,      \* "start", "tree" (a tree exists), "done"
    op,      \* the last operation: "none", "convert", "load", "loadeval", "eval"
    self,    \* the tree eval() is called on
    before,  \* the content of self when the last eval() was entered
    st,      \* the run record of the last operation
    result   \* what the last operation returned

vars == <<input, pc, op, self, before, st, result>>

Init ==
    /\ input \in Inputs
    /\ pc = "start"
    /\ op = "none"
    /\ self = NoneV
    /\ before = NoneV
    /\ st = St0
    /\ result = NoneV

\* the run record and the value an operation leaves
Ran(r) == st' = r.st /\ result' = r.val

ConvertDone(r) == Ran(r) /\ self' = r.val
\* CfgNode._convert_to_cfg_node(data)
Convert ==
    /\ pc = "start"
    /\ ConvertDone(ConvertLoaded(Materialize(input, St0)))
    /\ pc' = "tree"
    /\ op' = "convert"
    /\ UNCHANGED <<input, before>>

LoadOnlyDone(r) ==
    /\ Ran(r)
    /\ self' = IF Failed(r.st) THEN NoneV ELSE r.val
    /\ pc' = IF Failed(r.st) THEN "done" ELSE "tree"
\* CfgNode.load(path, evaluate=False)
LoadOnly ==
    /\ pc = "start"
    /\ NoTuple(input)
    /\ LoadOnlyDone(Load(input, FALSE, St0))
    /\ op' = "load"
    /\ UNCHANGED <<input, before>>

\* CfgNode.load(path, evaluate=True)
LoadEval ==
    /\ pc = "start"
    /\ NoTuple(input)
    /\ Ran(Load(input, TRUE, St0))
    /\ pc' = "done"
    /\ op' = "loadeval"
    /\ UNCHANGED <<input, self, before>>

\* self.eval()
CallEval ==
    /\ pc = "tree"
    /\ Ran(Eval(self, [St0 EXCEPT !.heap = st.heap]))
    /\ before' = Deref(st.heap, self)
    /\ pc' = "done"
    /\ op' = "eval"
    /\ UNCHANGED <<input, self>>

Next == Convert \/ LoadOnly \/ LoadEval \/ CallEval

Spec == Init /\ [][Next]_vars

\* ---------------------------------------------------------------- properties
\* a mapping whose key set is exactly {module, name} or {module, name, kwargs}
DescriptorKeys(v) ==
    v.t = "map" /\ Keys(v.items) \in {{ModuleKey, NAME}, {ModuleKey, NAME, KWARGS}}
\* the tree without its root `extralibs` entry
Body(tree) == MapV(TRUE, PopRest(tree.items, EXTRALIBS))
EvalReturned == op = "eval" /\ ~Failed(st)
Output == Deref(st.heap, result)
Max(S) == IF S = {} THEN 0 ELSE CHOOSE x \in S : \A y \in S : y <= x

RECURSIVE Nodes(_)
\* every mapping of a tree
Nodes(v) ==
    IF v.t = "map" THEN {v} \cup UNION {Nodes(v.items[i].v) : i \in 1..Len(v.items)}
    ELSE IF v.t = "seq" THEN UNION {Nodes(v.items[i]) : i \in 1..Len(v.items)}
    ELSE {}

RECURSIVE Depth(_)
\* nesting depth, a scalar counting one
Depth(v) ==
    IF v.t = "map" THEN 1 + Max({Depth(v.items[i].v) : i \in 1..Len(v.items)})
    ELSE IF v.t = "seq" THEN 1 + Max({Depth(v.items[i]) : i \in 1..Len(v.items)})
    ELSE 1

RECURSIVE Resolved(_, _)
\* out holds a return value wherever node holds a descriptor
Resolved(node, out) ==
    IF DescriptorKeys(node) THEN
        \/ /\ out.t = "obj"
           /\ StrV(out.m) = Get(node.items, ModuleKey)
           /\ StrV(out.n) = Get(node.items, NAME)
        \/ /\ out.t = "map" /\ ~out.cfg
           /\ Get(node.items, NAME) = StrV("dict")
    ELSE IF node.t = "map" THEN
        /\ out.t = "map"
        /\ Len(out.items) = Len(node.items)
        /\ \A i \in 1..Len(node.items) :
              /\ out.items[i].k = node.items[i].k
              /\ Resolved(node.items[i].v, out.items[i].v)
    ELSE IF node.t = "seq" THEN
        /\ out.t = "seq"
        /\ Len(out.items) = Len(node.items)
        /\ \A i \in 1..Len(node.items) : Resolved(node.items[i], out.items[i])
    ELSE TRUE

\* C1: when eval() returns, every descriptor node of the input, at any
\* position and for every key order, also one a string expression
\* references, is replaced in the output by the return value of its call.
C1_DescriptorsReplaced == EvalReturned => Resolved(Body(before), Output)

\* C2: every name a string expression looks up in the local context yields
\* the value the key had in the input tree, never one evaluated earlier.
C2_LocalContextIsOriginal ==
    op = "eval" =>
        \A i \in 1..Len(st.lookups) :
            /\ HasKey(before.items, st.lookups[i].name)
            /\ st.lookups[i].val = Content(Get(before.items, st.lookups[i].name))

\* C3: whatever the outcome of eval(), the tree it was called on has the
\* keys, values and nesting it had before the call.
C3_SelfUnchanged == op = "eval" => Deref(st.heap, self) = before
\* a failed eval() on a tree with extralibs, after a descriptor was called
C3_Witness ==
    /\ op = "eval" /\ Failed(st)
    /\ HasKey(before.items, EXTRALIBS)
    /\ Len(st.calls) > 0

\* C4: whenever eval() returns it returns a CfgNode, so the isinstance
\* assertion that ends load() never fails.
C4_ResultIsCfgNode ==
    /\ EvalReturned => IsCfgNode(result, st)
    /\ op \in {"load", "loadeval"} => st.err # "AssertionError"

\* an extralibs mapping entry lacking module or name, or having either
\* null, or carrying another key
MalformedInfo(v) ==
    /\ v.t = "map"
    /\ \/ ~HasKey(v.items, ModuleKey) \/ ~HasKey(v.items, NAME)
       \/ Get(v.items, ModuleKey) = NoneV \/ Get(v.items, NAME) = NoneV
       \/ ~(Keys(v.items) \subseteq {ModuleKey, NAME})
LibsOf(tree) ==
    IF HasKey(tree.items, EXTRALIBS) /\ Get(tree.items, EXTRALIBS).t = "map"
    THEN Get(tree.items, EXTRALIBS).items ELSE <<>>
HasMalformed(tree) == \E i \in 1..Len(LibsOf(tree)) : MalformedInfo(LibsOf(tree)[i].v)
FirstMalformed(tree) ==
    CHOOSE i \in 1..Len(LibsOf(tree)) :
        /\ MalformedInfo(LibsOf(tree)[i].v)
        /\ \A j \in 1..(i - 1) : ~MalformedInfo(LibsOf(tree)[j].v)
\* an entry whose import succeeds
Importable(v) ==
    \/ v.t = "str" /\ v.s \in Modules
    \/ /\ v.t = "map" /\ ~MalformedInfo(v)
       /\ Get(v.items, ModuleKey).t = "str" /\ Get(v.items, NAME).t = "str"
       /\ Get(v.items, ModuleKey).s \in Modules
       /\ HasAttr(Get(v.items, ModuleKey).s, Get(v.items, NAME).s)
NothingEvaluated == st.nstr = 0 /\ st.calls = <<>>

\* C5 as stated: a malformed extralibs entry, at any position, makes eval()
\* raise a value error before any string is evaluated or callable invoked.
C5_MalformedRaisesValueError ==
    op = "eval" /\ HasMalformed(before) =>
        st.err = "ValueError" /\ NothingEvaluated

\* C5: a malformed extralibs entry makes eval() raise before any string is
\* evaluated or callable invoked; the error is the value error exactly when
\* every alias before the first malformed entry imports.
C5_MalformedFailsFast ==
    op = "eval" /\ HasMalformed(before) =>
        /\ Failed(st) /\ NothingEvaluated
        /\ (st.err = "ValueError") =
              (\A j \in 1..(FirstMalformed(before) - 1) :
                  Importable(LibsOf(before)[j].v))
\* a value error from a malformed second alias, the tree holding a string
C5_Witness ==
    /\ op = "eval" /\ HasMalformed(before)
    /\ FirstMalformed(before) = 2
    /\ st.err = "ValueError"
    /\ \E i \in 1..Len(before.items) : before.items[i].v.t = "str"

RECURSIVE AllCfg(_)
AllCfg(v) ==
    IF v.t = "map" THEN v.cfg /\ \A i \in 1..Len(v.items) : AllCfg(v.items[i].v)
    ELSE IF v.t = "seq" THEN \A i \in 1..Len(v.items) : AllCfg(v.items[i])
    ELSE TRUE

\* C6: load(path, evaluate=False) returns the content of the file: every
\* key, string, scalar and sequence element unchanged, every mapping a CfgNode.
C6_LoadKeepsContent ==
    op = "load" =>
        /\ ~Failed(st)
        /\ Content(Output) = Content(input)
        /\ AllCfg(Output)

RECURSIVE PlainTree(_)
\* no string node, no descriptor-shaped mapping, no extralibs key
PlainTree(v) ==
    IF v.t = "map" THEN
        /\ ~DescriptorKeys(v)
        /\ ~HasKey(v.items, EXTRALIBS)
        /\ \A i \in 1..Len(v.items) : PlainTree(v.items[i].v)
    ELSE IF v.t = "seq" THEN \A i \in 1..Len(v.items) : PlainTree(v.items[i])
    ELSE v.t # "str"

DepthBounded == st.err # "RecursionError" /\ st.maxd <= Depth(before) + 1
\* no name looked up in the local context was bound to a mapping or sequence
NoContainerLookup ==
    \A i \in 1..Len(st.lookups) : st.lookups[i].val.t \notin {"map", "seq"}

PartialNode(v) ==
    \/ HasKey(v.items, ModuleKey) # HasKey(v.items, NAME)
    \/ HasKey(v.items, ModuleKey) /\ Get(v.items, ModuleKey) = NoneV
    \/ HasKey(v.items, NAME) /\ Get(v.items, NAME) = NoneV
\* a descriptor-shaped mapping whose module or name is null
NullDescriptor(v) ==
    /\ DescriptorKeys(v)
    /\ Get(v.items, ModuleKey) = NoneV \/ Get(v.items, NAME) = NoneV

\* C9 as stated: a mapping carrying module without name, or name without
\* module, or one of them null, makes eval() fail.
C9_PartialDescriptorFails ==
    op = "eval" /\ (\E n \in Nodes(before) : PartialNode(n)) => Failed(st)

\* C9: a descriptor-shaped mapping whose module or name is null makes
\* eval() fail.
C9_NullDescriptorFails ==
    op = "eval" /\ (\E n \in Nodes(before) : NullDescriptor(n)) => Failed(st)
\* eval() failed in the call of a descriptor with a null module or name
C9_Witness ==
    /\ op = "eval"
    /\ \E n \in Nodes(Body(before)) : NullDescriptor(n)
    /\ st.err \in {"AttributeError", "TypeError"}
    /\ st.nstr = 0

RECURSIVE CountDescriptors(_)
RECURSIVE CountAll(_)
CountAll(vals) ==
    IF vals = <<>> THEN 0 ELSE CountDescriptors(Head(vals)) + CountAll(Tail(vals))
\* the number of descriptor-shaped mappings of a tree
CountDescriptors(v) ==
    IF v.t = "map" THEN (IF DescriptorKeys(v) THEN 1 ELSE 0) + CountAll(Vals(v.items))
    ELSE IF v.t = "seq" THEN CountAll(v.items)
    ELSE 0
KwargsOf(n) == IF HasKey(n.items, KWARGS) THEN Get(n.items, KWARGS) ELSE MapV(TRUE, <<>>)
\* the value a keyword must have, where the node rule fixes it
Expected(v, out) ==
    IF v.t \in {"int", "none", "bool", "date"} THEN out = v
    ELSE IF v = StrV("1") THEN out = IntV(1)
    ELSE IF v = StrV("'a'") THEN out = StrV("a")
    ELSE TRUE
\* some call of n's callable got exactly the keywords of K, evaluated
InvokedWith(n, K) ==
    \E i \in 1..Len(st.calls) :
        /\ StrV(st.calls[i].m) = Get(n.items, ModuleKey)
        /\ StrV(st.calls[i].n) = Get(n.items, NAME)
        /\ Len(st.calls[i].kw) = Len(K.items)
        /\ \A j \in 1..Len(K.items) :
              /\ st.calls[i].kw[j].k = K.items[j].k
              /\ Expected(K.items[j].v, st.calls[i].kw[j].v)
\* as many calls as descriptor nodes, no node called twice
OncePerNode ==
    /\ Len(st.calls) = CountDescriptors(Body(before))
    /\ Cardinality({st.calls[i].node : i \in 1..Len(st.calls)}) = Len(st.calls)

\* C10 as stated: when eval() returns, every descriptor node was invoked
\* exactly once, with exactly the keys of its kwargs mapping K as keyword
\* names and their evaluated values, whatever the keyword names in K.
C10_KwargsPassedAlways ==
    EvalReturned =>
        /\ OncePerNode
        /\ \A n \in Nodes(Body(before)) :
              DescriptorKeys(n) /\ KwargsOf(n).t = "map" => InvokedWith(n, KwargsOf(n))

\* C10: the same, for every K whose own key set is not the descriptor shape.
C10_KwargsPassed ==
    EvalReturned =>
        /\ OncePerNode
        /\ \A n \in Nodes(Body(before)) :
              DescriptorKeys(n) /\ KwargsOf(n).t = "map" /\ ~DescriptorKeys(KwargsOf(n))
                  => InvokedWith(n, KwargsOf(n))
\* a descriptor was called with two evaluated keywords
C10_Witness ==
    /\ EvalReturned
    /\ \E i \in 1..Len(st.calls) :
          st.calls[i].kw = <<Item("x", IntV(1)), Item("y", IntV(1))>>

====
